---- MODULE Spec2Model ----
(***************************************************************************)
(* evcore: the sequencer driver (src/src/sequencer.rs), the consumer       *)
(* driver (src/src/consumer.rs) and the contracts they compose (Election,  *)
(* Inbox, Stream/Producer, Logic, Sequencer).                              *)
(*                                                                         *)
(* Every sequencer instance runs two threads that share one status atom:   *)
(* the ticker (sequencer.rs:134-169) and the foreground thread, which      *)
(* replays the log through Wrapper (sequencer.rs:172-176) and then serves  *)
(* commands (sequencer.rs:179-185).  Each call on a shared collaborator    *)
(* (status load/store, inbox, election, producer) is one step, so every    *)
(* interleaving of the two threads at those calls is a behaviour.          *)
(***************************************************************************)
EXTENDS Naturals, Sequences, FiniteSets

\* ---------------------------------------------------------------- constants
STATUS_STARTING == 0
STATUS_CAUGHT_UP == 1
STATUS_LEADER == 2
STATUS_ACTIVATED == 3

\* ------------------------------------------------------------------- bounds
\* events the log can hold (publish blocks on a full log)
MaxLog == 3
\* events already in the log when the instances start
MaxInitLog == 1
\* commands clients send in a run, over all inboxes
MaxCmds == 2

\* Sequencer instances that can run against the one log.  Owner 0 marks an
\* event written by some earlier writer that is not one of these instances.
Inst == {1, 2}
NoOne == 0

VARIABLES
    alive,      \* alive[i]: the process of instance i runs (started, not exited)
    status,     \* the status atom (sequencer.rs:129)
    held,       \* history: the set of values the status atom has held
    tpc,        \* ticker thread: its position in the loop body
    tstat,      \* ticker thread: the status value its last load returned
    fpc,        \* foreground thread: its position
    cu,         \* the user logic's caught_up() answer
    offset,     \* the offset Wrapper::load returned and the stream was subscribed at
    pos,        \* the stream receiver: number of log events before its next one
    event,      \* foreground local `event` (consumer.rs:19, sequencer.rs:181)
    command,    \* foreground local `command` (sequencer.rs:180), by arrival phase
    applied,    \* history: the events the user logic's step was called with
    inbox,      \* the inbox: buffered commands, each tagged with its arrival phase
    clearedAt,  \* history: the values status had at the inbox.clear() calls
    log,        \* the durable log
    holder,     \* election: the instance holding the lease, or NoOne
    expirable,  \* election: the holder let a renewal period pass unrenewed
    sent        \* number of commands sent so far

vars == <<alive, status, held, tpc, tstat, fpc, cu, offset, pos, event,
          command, applied, inbox, clearedAt, log, holder, expirable, sent>>

\* ----------------------------------------------------------------- events
ActivationOf(i) == [kind |-> "act", owner |-> i, n |-> 0]
HeartbeatOf(i) == [kind |-> "hb", owner |-> i, n |-> 0]
CommandEvent(i, k) == [kind |-> "cmd", owner |-> i, n |-> k]
NoEvent == [kind |-> "none", owner |-> NoOne, n |-> 0]

\* What an earlier writer may have left in the log.
ForeignEvents == {ActivationOf(NoOne), CommandEvent(NoOne, 1)}

RECURSIVE SeqsUpTo(_, _)
SeqsUpTo(S, k) ==
    IF k = 0 THEN {<<>>}
    ELSE LET shorter == SeqsUpTo(S, k - 1)
         IN  shorter \cup {Append(s, e) : s \in {t \in shorter : Len(t) = k - 1}, e \in S}

InitLogs == SeqsUpTo(ForeignEvents, MaxInitLog)

\* Sequencer::is_activation: true only for an activation this instance produced.
is_activation(i, e) == e.kind = "act" /\ e.owner = i

IsCmdOf(i, e) == e.kind = "cmd" /\ e.owner = i

\* The events of i's command loop that s holds, in order.
CmdEventsOf(i, s) == SelectSeq(s, LAMBDA e : IsCmdOf(i, e))

\* The events published by i (ticker and command loop) that s holds, in order.
EventsOf(i, s) == SelectSeq(s, LAMBDA e : e.owner = i)

\* ------------------------------------------------------------ initial state
InitWith(started, logs, nsent) ==
    /\ alive = [i \in Inst |-> i \in started]
    /\ status = [i \in Inst |-> STATUS_STARTING]
    /\ held = [i \in Inst |-> {STATUS_STARTING}]
    /\ tpc = [i \in Inst |-> "read"]
    /\ tstat = [i \in Inst |-> STATUS_STARTING]
    /\ fpc = [i \in Inst |-> "load"]
    /\ cu = [i \in Inst |-> FALSE]
    /\ offset = [i \in Inst |-> 0]
    /\ pos = [i \in Inst |-> 0]
    /\ event = [i \in Inst |-> NoEvent]
    /\ command = [i \in Inst |-> "none"]
    /\ applied = [i \in Inst |-> <<>>]
    /\ inbox = [i \in Inst |-> <<>>]
    /\ clearedAt = [i \in Inst |-> {}]
    /\ log \in logs
    /\ holder = NoOne
    /\ expirable = FALSE
    /\ sent = nsent

\* One sequencer instance on a log that earlier writers may have written to.
Init == InitWith({1}, InitLogs, 0)

\* ------------------------------------------------------------ status atom
\* status.store(v, Relaxed), with the history of held values kept alongside.
Store(i, v) ==
    /\ status' = [status EXCEPT ![i] = v]
    /\ held' = [held EXCEPT ![i] = @ \cup {v}]

\* Wrapper::check_caught_up: the value of status after the call, given
\* caught_up()'s answer c and the value s before it.
check_caught_up(c, s) == IF c THEN STATUS_CAUGHT_UP ELSE s

\* ---------------------------------------------------------------- ticker
\* TickerArm with the Leader arm taken for the clearing arm: the inbox is
\* cleared until the activation is observed.
TickerArmClearsUntilActivated(s) ==
    CASE s = STATUS_STARTING -> "clear"
      [] s = STATUS_CAUGHT_UP -> "elect"
      [] s = STATUS_LEADER -> "clear"
      [] s = STATUS_ACTIVATED -> "renew"

\* The match of the ticker loop: where a tick that loaded s goes.
TickerArm(s) ==
    CASE s = STATUS_STARTING -> "clear"
      [] s = STATUS_CAUGHT_UP -> "elect"
      [] s = STATUS_LEADER -> "renew"
      [] s = STATUS_ACTIVATED -> "renew"

\* What a tick publishes after a successful renew: activate() in the Leader
\* arm, heartbeat() in the Activated arm.
TickerEvent(i, s) == IF s = STATUS_LEADER THEN ActivationOf(i) ELSE HeartbeatOf(i)

\* status.load(Relaxed) at the top of a tick.
TickRead(i) ==
    /\ alive[i] /\ tpc[i] = "read"
    /\ tstat' = [tstat EXCEPT ![i] = status[i]]
    /\ tpc' = [tpc EXCEPT ![i] = TickerArm(status[i])]
    /\ UNCHANGED <<alive, status, held, fpc, cu, offset, pos, event, command, applied,
                   inbox, clearedAt, log, holder, expirable, sent>>

\* STATUS_STARTING => inbox.clear(), then sleep.
TickClear(i) ==
    /\ alive[i] /\ tpc[i] = "clear"
    /\ inbox' = [inbox EXCEPT ![i] = <<>>]
    /\ clearedAt' = [clearedAt EXCEPT ![i] = @ \cup {status[i]}]
    /\ tpc' = [tpc EXCEPT ![i] = "read"]
    /\ UNCHANGED <<alive, status, held, tstat, fpc, cu, offset, pos, event, command,
                   applied, log, holder, expirable, sent>>

\* Election::elect as called by i: the answers the backend can give.  A free
\* lease may be granted; a lease held by another instance is never granted;
\* a holder asking again is answered either way (a re-entrant backend grants
\* and refreshes, a set-if-absent backend refuses).
ElectAnswers(i) == IF holder \in {NoOne, i} THEN BOOLEAN ELSE {FALSE}

\* TickElect with a fall-back: a refused elect() sends the instance back to
\* Starting.
TickElectResetsOnRefusal(i) ==
    /\ alive[i] /\ tpc[i] = "elect"
    /\ \E granted \in ElectAnswers(i) :
         /\ holder' = IF granted THEN i ELSE holder
         /\ expirable' = IF granted THEN FALSE
                         ELSE IF holder = i THEN TRUE ELSE expirable
         /\ tpc' = [tpc EXCEPT ![i] = IF granted THEN "store" ELSE "read"]
         /\ IF granted THEN UNCHANGED <<status, held>>
                       ELSE Store(i, STATUS_STARTING)
    /\ UNCHANGED <<alive, tstat, fpc, cu, offset, pos, event, command,
                   applied, inbox, clearedAt, log, sent>>

\* STATUS_CAUGHT_UP => election.elect(); a refusal ends the tick.  A holder
\* whose tick ends without the lease refreshed has let a period pass.
TickElect(i) ==
    /\ alive[i] /\ tpc[i] = "elect"
    /\ \E granted \in ElectAnswers(i) :
         /\ holder' = IF granted THEN i ELSE holder
         /\ expirable' = IF granted THEN FALSE
                         ELSE IF holder = i THEN TRUE ELSE expirable
         /\ tpc' = [tpc EXCEPT ![i] = IF granted THEN "store" ELSE "read"]
    /\ UNCHANGED <<alive, status, held, tstat, fpc, cu, offset, pos, event, command,
                   applied, inbox, clearedAt, log, sent>>

\* status.store(STATUS_LEADER) after elect() returned true, then sleep.
TickStoreLeader(i) ==
    /\ alive[i] /\ tpc[i] = "store"
    /\ Store(i, STATUS_LEADER)
    /\ tpc' = [tpc EXCEPT ![i] = "read"]
    /\ UNCHANGED <<alive, tstat, fpc, cu, offset, pos, event, command, applied, inbox,
                   clearedAt, log, holder, expirable, sent>>

\* Election::renew as called by i: true exactly when i holds the lease.
RenewAnswer(i) == holder = i

\* STATUS_LEADER / STATUS_ACTIVATED => election.renew().
TickRenew(i) ==
    /\ alive[i] /\ tpc[i] = "renew"
    /\ tpc' = [tpc EXCEPT ![i] = IF RenewAnswer(i) THEN "publish" ELSE "exit"]
    /\ expirable' = IF RenewAnswer(i) THEN FALSE ELSE expirable
    /\ UNCHANGED <<alive, status, held, tstat, fpc, cu, offset, pos, event, command,
                   applied, inbox, clearedAt, log, holder, sent>>

\* producer.publish(&activate()) / producer.publish(&heartbeat()), then sleep.
TickPublish(i) ==
    /\ alive[i] /\ tpc[i] = "publish"
    /\ Len(log) < MaxLog
    /\ log' = Append(log, TickerEvent(i, tstat[i]))
    /\ tpc' = [tpc EXCEPT ![i] = "read"]
    /\ UNCHANGED <<alive, status, held, tstat, fpc, cu, offset, pos, event, command,
                   applied, inbox, clearedAt, holder, expirable, sent>>

\* process::exit(1) taking effect: both threads of the process stop.
TickExit(i) ==
    /\ alive[i] /\ tpc[i] = "exit"
    /\ alive' = [alive EXCEPT ![i] = FALSE]
    /\ UNCHANGED <<status, held, tpc, tstat, fpc, cu, offset, pos, event, command,
                   applied, inbox, clearedAt, log, holder, expirable, sent>>

\* -------------------------------------------------------------- election
\* The lease times out: only when its holder is gone or has let a renewal
\* period pass (the tick interval is shorter than the lease).
Expire ==
    /\ holder # NoOne
    /\ expirable \/ ~alive[holder]
    /\ holder' = NoOne
    /\ expirable' = FALSE
    /\ UNCHANGED <<alive, status, held, tpc, tstat, fpc, cu, offset, pos, event,
                   command, applied, inbox, clearedAt, log, sent>>

\* ------------------------------------------------------------ foreground
\* consumer::run's first two lines on the Wrapper: Wrapper::load (the user
\* logic's load, which fixes caught_up() and the offset, then
\* check_caught_up) and stream.subscribe(offset).
FgLoad(i) ==
    /\ alive[i] /\ fpc[i] = "load"
    /\ \E c \in BOOLEAN, o \in 0..Len(log) :
         /\ cu' = [cu EXCEPT ![i] = c]
         /\ offset' = [offset EXCEPT ![i] = o]
         /\ pos' = [pos EXCEPT ![i] = o]
         /\ Store(i, check_caught_up(c, status[i]))
    /\ fpc' = [fpc EXCEPT ![i] = "recv"]
    /\ UNCHANGED <<alive, tpc, tstat, event, command, applied, inbox,
                   clearedAt, log, holder, expirable, sent>>

\* receiver.recv() of the replay loop and the first line of Wrapper::step,
\* self.check_caught_up().
FgRecv(i) ==
    /\ alive[i] /\ fpc[i] = "recv"
    /\ pos[i] < Len(log)
    /\ event' = [event EXCEPT ![i] = log[pos[i] + 1]]
    /\ pos' = [pos EXCEPT ![i] = @ + 1]
    /\ Store(i, check_caught_up(cu[i], status[i]))
    /\ fpc' = [fpc EXCEPT ![i] = "apply"]
    /\ UNCHANGED <<alive, tpc, tstat, cu, offset, command, applied, inbox,
                   clearedAt, log, holder, expirable, sent>>

\* AfterStep with the Wrapper handing back the user logic's answer only:
\* the instance's activation does not end the replay.
AfterStepIgnoresActivation(isAct, cont) == IF cont THEN "recv" ELSE "cmd"

\* Where the foreground goes after Wrapper::step returned: consumer::run
\* breaks out of replay when step returned false, and run then enters the
\* command loop.  Wrapper::step returns false on an activation and the user
\* logic's answer cont otherwise.
AfterStep(isAct, cont) == IF isAct \/ ~cont THEN "cmd" ELSE "recv"

\* FgApply with the is_activation test made before the user logic's step and
\* returning on a match: the activation is never stepped.
FgApplySkipsActivation(i) ==
    /\ alive[i] /\ fpc[i] = "apply"
    /\ IF is_activation(i, event[i])
         THEN /\ Store(i, STATUS_ACTIVATED)
              /\ fpc' = [fpc EXCEPT ![i] = "cmd"]
              /\ UNCHANGED <<applied, cu>>
         ELSE /\ applied' = [applied EXCEPT ![i] = Append(@, event[i])]
              /\ \E cont \in BOOLEAN, c \in {cu[i], TRUE} :
                   /\ cu' = [cu EXCEPT ![i] = c]
                   /\ fpc' = [fpc EXCEPT ![i] = AfterStep(FALSE, cont)]
              /\ UNCHANGED <<status, held>>
    /\ UNCHANGED <<alive, tpc, tstat, offset, pos, event, command, inbox, clearedAt,
                   log, holder, expirable, sent>>

\* The rest of Wrapper::step: the user logic's step (which answers cont and
\* may make caught_up() true), then the is_activation test.
FgApply(i) ==
    /\ alive[i] /\ fpc[i] = "apply"
    /\ applied' = [applied EXCEPT ![i] = Append(@, event[i])]
    /\ \E cont \in BOOLEAN, c \in {cu[i], TRUE} :
         /\ cu' = [cu EXCEPT ![i] = c]
         /\ fpc' = [fpc EXCEPT ![i] = AfterStep(is_activation(i, event[i]), cont)]
    /\ IF is_activation(i, event[i])
         THEN Store(i, STATUS_ACTIVATED)
         ELSE UNCHANGED <<status, held>>
    /\ UNCHANGED <<alive, tpc, tstat, offset, pos, event, command, inbox, clearedAt,
                   log, holder, expirable, sent>>

\* CmdRecv without the `if let Some(event)` test: a rejected command goes on
\* to publish as an accepted one does.
CmdRecvPublishesRejected(i) ==
    /\ alive[i] /\ fpc[i] = "cmd"
    /\ inbox[i] # <<>>
    /\ command' = [command EXCEPT ![i] = Head(inbox[i])]
    /\ inbox' = [inbox EXCEPT ![i] = Tail(@)]
    /\ \E accepted \in BOOLEAN :
         /\ event' = [event EXCEPT ![i] =
               IF accepted
                 THEN CommandEvent(i, Len(CmdEventsOf(i, applied[i])) + 1)
                 ELSE NoEvent]
         /\ fpc' = [fpc EXCEPT ![i] = "publish"]
    /\ UNCHANGED <<alive, status, held, tpc, tstat, cu, offset, pos, applied,
                   clearedAt, log, holder, expirable, sent>>

\* inbox.recv() and wrapper.logic.process(&command): the command is taken
\* from the inbox and the user logic accepts it (Some(event), stamped with
\* the next sequence number) or rejects it (None).
CmdRecv(i) ==
    /\ alive[i] /\ fpc[i] = "cmd"
    /\ inbox[i] # <<>>
    /\ command' = [command EXCEPT ![i] = Head(inbox[i])]
    /\ inbox' = [inbox EXCEPT ![i] = Tail(@)]
    /\ \E accepted \in BOOLEAN :
         IF accepted
           THEN /\ event' = [event EXCEPT ![i] =
                      CommandEvent(i, Len(CmdEventsOf(i, applied[i])) + 1)]
                /\ fpc' = [fpc EXCEPT ![i] = "publish"]
           ELSE /\ event' = [event EXCEPT ![i] = NoEvent]
                /\ fpc' = [fpc EXCEPT ![i] = "cmd"]
    /\ UNCHANGED <<alive, status, held, tpc, tstat, cu, offset, pos, applied,
                   clearedAt, log, holder, expirable, sent>>

\* CmdPublish that returns before the event is in the log: the command loop
\* goes on to step an event the log does not hold.
CmdPublishNotAwaited(i) ==
    /\ alive[i] /\ fpc[i] = "publish"
    /\ Len(log) < MaxLog
    /\ fpc' = [fpc EXCEPT ![i] = "step"]
    /\ UNCHANGED <<alive, status, held, tpc, tstat, cu, offset, pos, event, command,
                   applied, inbox, clearedAt, log, holder, expirable, sent>>

\* producer.publish(&event) of the command loop.
CmdPublish(i) ==
    /\ alive[i] /\ fpc[i] = "publish"
    /\ Len(log) < MaxLog
    /\ log' = Append(log, event[i])
    /\ fpc' = [fpc EXCEPT ![i] = "step"]
    /\ UNCHANGED <<alive, status, held, tpc, tstat, cu, offset, pos, event, command,
                   applied, inbox, clearedAt, holder, expirable, sent>>

\* CmdStep that steps a freshly processed event in place of the published
\* one: the logic applies an event with the next sequence number.
CmdStepReprocessed(i) ==
    /\ alive[i] /\ fpc[i] = "step"
    /\ applied' = [applied EXCEPT ![i] =
                      Append(@, CommandEvent(i, event[i].n + 1))]
    /\ fpc' = [fpc EXCEPT ![i] = "cmd"]
    /\ UNCHANGED <<alive, status, held, tpc, tstat, cu, offset, pos, event, command,
                   inbox, clearedAt, log, holder, expirable, sent>>

\* CmdStep with the self-step left out: the command loop goes back to
\* inbox.recv() right after the publish.
CmdStepSkipped(i) ==
    /\ alive[i] /\ fpc[i] = "step"
    /\ fpc' = [fpc EXCEPT ![i] = "cmd"]
    /\ UNCHANGED <<alive, status, held, tpc, tstat, cu, offset, pos, event, command,
                   applied, inbox, clearedAt, log, holder, expirable, sent>>

\* wrapper.logic.step(&event) of the command loop: the user logic, not the
\* Wrapper, so the status atom is not touched.
CmdStep(i) ==
    /\ alive[i] /\ fpc[i] = "step"
    /\ applied' = [applied EXCEPT ![i] = Append(@, event[i])]
    /\ fpc' = [fpc EXCEPT ![i] = "cmd"]
    /\ UNCHANGED <<alive, status, held, tpc, tstat, cu, offset, pos, event, command,
                   inbox, clearedAt, log, holder, expirable, sent>>

\* ---------------------------------------------------------------- clients
\* The phase a command arrives in: while status is Starting, or later.
ArrivalPhase(s) == IF s = STATUS_STARTING THEN "early" ELSE "late"

\* Sender::send: a client's command reaches the inbox of instance i.
Send(i) ==
    /\ alive[i]
    /\ sent < MaxCmds
    /\ sent' = sent + 1
    /\ inbox' = [inbox EXCEPT ![i] = Append(@, ArrivalPhase(status[i]))]
    /\ UNCHANGED <<alive, status, held, tpc, tstat, fpc, cu, offset, pos, event,
                   command, applied, clearedAt, log, holder, expirable>>

\* ------------------------------------------------------------------ system
Ticker(i) ==
    \/ TickRead(i)
    \/ TickClear(i)
    \/ TickElect(i)
    \/ TickStoreLeader(i)
    \/ TickRenew(i)
    \/ TickPublish(i)
    \/ TickExit(i)

Foreground(i) ==
    \/ FgLoad(i)
    \/ FgRecv(i)
    \/ FgApply(i)
    \/ CmdRecv(i)
    \/ CmdPublish(i)
    \/ CmdStep(i)

Next ==
    \/ \E i \in Inst : Ticker(i)
    \/ \E i \in Inst : Foreground(i)
    \/ \E i \in Inst : Send(i)
    \/ Expire

Spec == Init /\ [][Next]_vars

\* The single instance with both of its threads scheduled fairly: the ticker
\* thread's loop and the foreground thread each take their next step when it
\* stays possible.
SpecFair == Init /\ [][Next]_vars /\ WF_vars(Ticker(1)) /\ WF_vars(Foreground(1))

\* Two instances started against the same, initially empty, log; one command
\* is still to be sent.
InitMulti == InitWith({1, 2}, {<<>>}, MaxCmds - 1)

SpecMulti == InitMulti /\ [][Next]_vars

\* ================================================================== claims
\* This step appends an event of instance i to the log (a publish by i).
PublishedBy(i) == Len(log') = Len(log) + 1 /\ log'[Len(log')].owner = i

\* This step is i's foreground taking a command and passing it to process.
ProcessCalled(i) ==
    /\ fpc[i] = "cmd" /\ inbox[i] # <<>>
    /\ inbox'[i] = Tail(inbox[i])
    /\ tpc'[i] = tpc[i]

\* C1: no publish by an instance (ticker or command loop) happens before its
\* status atom has held the value Leader.
C1_NoPublishBeforeLeader ==
    [][\A i \in Inst : PublishedBy(i) => STATUS_LEADER \in held[i]]_vars

\* C2: no command is passed to process before the status atom has been set
\* to Activated.
C2_NoProcessBeforeActivated ==
    \A i \in Inst : command[i] # "none" => STATUS_ACTIVATED \in held[i]

\* C3: two running instances on the same log, sharing the election, never
\* both have status Activated.
C3_AtMostOneActivated ==
    \A i, j \in Inst :
        (/\ i # j
         /\ alive[i] /\ status[i] = STATUS_ACTIVATED
         /\ alive[j] /\ status[j] = STATUS_ACTIVATED) => FALSE

\* C4: once renew() has returned false in a tick of instance i, neither of
\* its threads publishes again.
C4_NoPublishAfterRenewFailed ==
    [][\A i \in Inst : (alive[i] /\ tpc[i] = "exit") => ~PublishedBy(i)]_vars

\* C5 as stated: when an activated instance passes the next command to
\* process, every event it has published (command, activation and heartbeat
\* events alike) has been stepped by its logic exactly once.
C5_EveryPublishedEventStepped ==
    [][\A i \in Inst :
          (ProcessCalled(i) /\ STATUS_ACTIVATED \in held[i])
              => EventsOf(i, log) = EventsOf(i, applied[i])]_vars

\* C5 as amended: every event the command loop publishes (an event produced
\* by process) is stepped by the same instance's logic exactly once, after
\* its publish and before the next command is taken; the ticker's activation
\* and heartbeat events are not stepped by the command loop.
C5_CommandEventsStepped ==
    \A i \in Inst :
        /\ fpc[i] \in {"cmd", "publish"}
              => CmdEventsOf(i, log) = CmdEventsOf(i, applied[i])
        /\ fpc[i] = "step"
              => CmdEventsOf(i, log) = Append(CmdEventsOf(i, applied[i]), event[i])

\* C5 witness: an activated instance is back at the top of the command loop
\* with a command event published and stepped, and with a ticker event of
\* its own in the log that its logic never stepped.
C5_Witness ==
    \E i \in Inst :
        /\ fpc[i] = "cmd" /\ STATUS_ACTIVATED \in held[i]
        /\ CmdEventsOf(i, applied[i]) # <<>>
        /\ EventsOf(i, log) # EventsOf(i, applied[i])

\* C6: the status values the ticker loads on successive ticks never decrease
\* in the order Starting < CaughtUp < Leader < Activated.
C6_TickerReadsMonotone ==
    [][\A i \in Inst : tstat'[i] >= tstat[i]]_vars

\* C7 as stated: every inbox.clear() call happens while status is Starting.
C7_ClearOnlyWhileStarting ==
    \A i \in Inst : clearedAt[i] \subseteq {STATUS_STARTING}

\* C7 as amended: every inbox.clear() call is made by a tick that loaded
\* Starting, and happens while status is Starting or CaughtUp, never once it
\* is Leader or Activated.
C7_ClearOnlyBeforeLeader ==
    /\ \A i \in Inst : clearedAt[i] \subseteq {STATUS_STARTING, STATUS_CAUGHT_UP}
    /\ \A i \in Inst : tpc[i] = "clear" => tstat[i] = STATUS_STARTING

\* C7 witness: inbox.clear() has run after the foreground stored CaughtUp.
C7_Witness ==
    \E i \in Inst : STATUS_CAUGHT_UP \in clearedAt[i]

\* C8: whenever status has left Starting, inbox.clear() has been called at
\* least once.
C8_ClearedBeforeLeavingStarting ==
    \A i \in Inst : status[i] # STATUS_STARTING => clearedAt[i] # {}

\* C9: a command that arrived while status was Starting is never passed to
\* process, not even after the instance became Activated.
C9_EarlyCommandsNeverProcessed ==
    \A i \in Inst : STATUS_ACTIVATED \in held[i] => command[i] # "early"

\* C10: the foreground leaves replay for the command loop only on an event
\* for which is_activation is true.
C10_ReplayEndsOnlyOnOwnActivation ==
    [][\A i \in Inst :
          (fpc[i] = "apply" /\ fpc'[i] = "cmd") => is_activation(i, event[i])]_vars

\* This step is the first half of Wrapper::step on i's next replayed event
\* (the recv and check_caught_up); that event is event'[i].
StepBegins(i) == fpc[i] = "recv" /\ fpc'[i] = "apply"

\* This step is the second half of Wrapper::step on event[i] (the user
\* logic's step and the is_activation test).
StepEnds(i) == fpc[i] = "apply" /\ fpc'[i] # "apply"

\* C11: when replay delivers an event for which is_activation is false
\* while status is CaughtUp, Leader or Activated, Wrapper::step leaves the
\* status atom as it is (neither of its two halves stores another value).
C11_ForeignEventLeavesStatus ==
    [][\A i \in Inst :
          /\ (StepBegins(i) /\ ~is_activation(i, event'[i])
                  /\ status[i] # STATUS_STARTING) => status'[i] = status[i]
          /\ (StepEnds(i) /\ ~is_activation(i, event[i]))
                  => status'[i] = status[i]]_vars

\* C15: a store of CaughtUp happens only while status is Starting (or is
\* CaughtUp already): Leader and Activated are never overwritten with
\* CaughtUp.
C15_CaughtUpOnlyFromStarting ==
    [][\A i \in Inst :
          (status'[i] = STATUS_CAUGHT_UP /\ status[i] # STATUS_CAUGHT_UP)
              => status[i] = STATUS_STARTING]_vars

\* C16: once status is Activated it never takes another value.
C16_ActivatedIsFinal ==
    [][\A i \in Inst :
          status[i] = STATUS_ACTIVATED => status'[i] = STATUS_ACTIVATED]_vars

\* C20: once status has left Starting it never holds Starting again.
C20_NeverBackToStarting ==
    [][\A i \in Inst :
          status[i] # STATUS_STARTING => status'[i] # STATUS_STARTING]_vars

\* C20 witness: status has left Starting and has been stored again since, by
\* the wrapper over the ticker's Leader.
C20_Witness ==
    \E i \in Inst : status[i] = STATUS_CAUGHT_UP /\ STATUS_LEADER \in held[i]

\* The set of events a sequence holds.
Range(s) == {s[k] : k \in 1..Len(s)}

\* The foreground is in the command loop.
InCommandLoop(i) == fpc[i] \in {"cmd", "publish", "step"}

\* C13: in the command loop a rejected command (process returned None) is
\* followed by no publish and no step, only by the next recv; an accepted
\* one (Some(event)) by exactly one publish of that event and then exactly
\* one step of that same event; and no other step of the foreground adds a
\* command event to the log or an event to the logic.
C13_CommandLoopBody ==
    [][\A i \in Inst :
          /\ (ProcessCalled(i) /\ event'[i] = NoEvent)
                => (fpc'[i] = "cmd" /\ log' = log /\ applied' = applied)
          /\ (ProcessCalled(i) /\ event'[i] # NoEvent)
                => (fpc'[i] = "publish" /\ log' = log /\ applied' = applied)
          /\ (fpc[i] = "publish" /\ fpc'[i] # "publish")
                => (/\ fpc'[i] = "step" /\ event'[i] = event[i]
                    /\ log' = Append(log, event[i]) /\ applied' = applied)
          /\ (fpc[i] = "step" /\ fpc'[i] # "step")
                => (/\ fpc'[i] = "cmd" /\ log' = log
                    /\ applied'[i] = Append(applied[i], event[i]))
          /\ CmdEventsOf(i, log') # CmdEventsOf(i, log)
                => (fpc[i] = "publish" /\ fpc'[i] = "step")
          /\ (InCommandLoop(i) /\ applied'[i] # applied[i])
                => (fpc[i] = "step" /\ fpc'[i] = "cmd")]_vars

\* C13 witness: two commands were sent and both taken by the command loop
\* (none cleared); one was rejected, the other published once and stepped
\* once.
C13_Witness ==
    \E i \in Inst :
        /\ fpc[i] = "cmd" /\ sent = 2 /\ inbox[i] = <<>> /\ clearedAt[i] = {}
        /\ STATUS_ACTIVATED \in held[i]
        /\ Len(CmdEventsOf(i, log)) = 1
        /\ Len(CmdEventsOf(i, applied[i])) = 1

\* The number of replayed events whose Wrapper::step has returned.
Replayed(i) == (pos[i] - offset[i]) - (IF fpc[i] = "apply" THEN 1 ELSE 0)

C17_PublishStepRecvOrder ==
    \A i \in Inst :
        /\ fpc[i] = "publish"
              => (event[i] \notin Range(log) /\ event[i] \notin Range(applied[i]))
        /\ fpc[i] = "step"
              => (event[i] \in Range(log) /\ event[i] \notin Range(applied[i]))
        /\ fpc[i] = "cmd"
              => \A e \in Range(log) \cup Range(applied[i]) :
                     IsCmdOf(i, e) => (e \in Range(log) /\ e \in Range(applied[i]))

\* C17 witness: the foreground is at its second publish, the first event
\* published and stepped.
C17_Witness ==
    \E i \in Inst :
        /\ fpc[i] = "publish" /\ event[i].n = 2
        /\ CommandEvent(i, 1) \in Range(log)
        /\ CommandEvent(i, 1) \in Range(applied[i])

\* The command events (of any writer) that s holds, in order.
CommandsIn(s) == SelectSeq(s, LAMBDA e : e.kind = "cmd")

\* C18: with one instance, whenever the activated leader is at recv, the
\* command events in the log from its offset on are exactly the command
\* events its logic has stepped, in the same order: a consumer replaying the
\* log (activations and heartbeats being no-ops) applies the same sequence.
C18_LogMatchesLeader ==
    \A i \in Inst :
        /\ \A k \in 1..Len(CmdEventsOf(i, log)) :
               /\ CmdEventsOf(i, log)[k].n = k
               /\ k <= Len(CmdEventsOf(i, applied[i]))
                     => CmdEventsOf(i, applied[i])[k] = CmdEventsOf(i, log)[k]
        /\ (fpc[i] = "cmd" /\ STATUS_ACTIVATED \in held[i])
               => CommandsIn(SubSeq(log, offset[i] + 1, Len(log)))
                      = CommandsIn(applied[i])

\* C18 witness: the activated leader is at recv with two events of its
\* command loop in the log.
C18_Witness ==
    \E i \in Inst :
        /\ fpc[i] = "cmd" /\ STATUS_ACTIVATED \in held[i]
        /\ Len(CmdEventsOf(i, log)) = 2

\* C19: when status has been set to Activated, the user logic has stepped
\* every log event from load()'s offset up to and including the observed
\* activation, each once and in log order; the activation is the last of
\* them.
C19_ActivationSteppedFirst ==
    \A i \in Inst :
        STATUS_ACTIVATED \in held[i] =>
            /\ InCommandLoop(i)
            /\ offset[i] < pos[i]
            /\ is_activation(i, log[pos[i]])
            /\ Len(applied[i]) >= pos[i] - offset[i]
            /\ SubSeq(applied[i], 1, pos[i] - offset[i])
                   = SubSeq(log, offset[i] + 1, pos[i])

\* C19 witness: the activation was observed after an earlier event of the
\* log had been stepped.
C19_Witness ==
    \E i \in Inst :
        /\ STATUS_ACTIVATED \in held[i]
        /\ pos[i] - offset[i] = 2
        /\ ~is_activation(i, applied[i][1])

\* elect() was refused while nobody held the lease: the refused tick ends
\* with the ticker back at its load, CaughtUp in hand, and the lease free.
ElectRefusedWhileFree ==
    tpc[1] = "read" /\ tstat[1] = STATUS_CAUGHT_UP /\ holder = NoOne

\* C12: with both threads scheduled fairly, caught_up() eventually true, an
\* election that never refuses the instance while the lease is free and
\* never takes the lease back once the instance has been Leader, and (more
\* than the claim asks) a user logic that never ends the replay itself, the
\* status eventually is Activated with the foreground in the command loop.
C12_EventuallyActivated ==
    ( /\ <>[]cu[1]
      /\ []~ElectRefusedWhileFree
      /\ [](STATUS_LEADER \in held[1] => holder = 1)
      /\ [](InCommandLoop(1) => STATUS_ACTIVATED \in held[1]) )
        => <>(status[1] = STATUS_ACTIVATED /\ InCommandLoop(1))

====
